---------------------------- MODULE Spec2Model ----------------------------
(***************************************************************************)
(* The data pipeline of the furniture sales dashboard                      *)
(* (src/src/furniture-dashboard.tsx, the loadData effect of Dashboard).    *)
(*                                                                         *)
(* A row of the parsed CSV is modelled by the four values loadData reads   *)
(* from it: orderYear is new Date(row['Order Date']).getFullYear(), sales  *)
(* is row.Sales, profit is row.Profit and subCategory is the property key  *)
(* lodash derives from row['Sub-Category'].  Amounts are exact integers    *)
(* (minor currency units); a quotient is kept as a JavaScript number that  *)
(* is either a reduced fraction or one of NaN, Infinity, -Infinity.        *)
(*                                                                         *)
(* Every row carries a valid calendar date: a row whose date does not      *)
(* parse (getFullYear() = NaN) is outside the record type the pipeline is  *)
(* specified for.  A sub-category is any string, among them strings that   *)
(* are array indices ("7", "10") and the string "year".                    *)
(***************************************************************************)
EXTENDS Integers, Sequences, FiniteSets, TLC

VARIABLES pc, data, yearlyData, totalMetrics, subCategoryData,
          subCategoryTrends, error, setCalls

vars == <<pc, data, yearlyData, totalMetrics, subCategoryData,
          subCategoryTrends, error, setCalls>>

(***************************************************************************)
(* Input domains.                                                          *)
(***************************************************************************)
\* the most rows a parsed text holds
MaxLen == 3

\* the years of the order dates: two adjacent years and one after a gap
Years == {2019, 2020, 2022}

SubCategories == {"Chairs", "7", "year"}

SalesValues == {0, 1}

ProfitValues == {-1, 1}

\* the profit on an order is a loss or a gain, and never exceeds the sale
Rows ==
  {r \in [orderYear : Years, sales : SalesValues, profit : ProfitValues,
          subCategory : SubCategories] : r.profit <= r.sales}

\* the rows of the label specification: one year, and labels of which two are
\* canonical array-index strings
LabelValues == {"Chairs", "year", "7", "10"}

LabelRows == [orderYear : {2020}, sales : {0, 1, 2}, profit : {-1, 1},
              subCategory : LabelValues]

(***************************************************************************)
(* JavaScript numbers produced by a division.                              *)
(***************************************************************************)
Abs(n) == IF n < 0 THEN -n ELSE n

RECURSIVE Gcd(_, _)
Gcd(a, b) == IF b = 0 THEN a ELSE Gcd(b, a % b)

Finite(n, d) ==
  LET g == Gcd(Abs(n), Abs(d))
      s == IF d < 0 THEN -1 ELSE 1
  IN  [kind |-> "finite", num |-> s * (n \div g), den |-> s * (d \div g)]

NaN == [kind |-> "NaN", num |-> 0, den |-> 1]

Infinity == [kind |-> "Infinity", num |-> 0, den |-> 1]

NegInfinity == [kind |-> "-Infinity", num |-> 0, den |-> 1]

Zero == Finite(0, 1)

\* a / b on two integer-valued numbers
JsDiv(a, b) ==
  IF b # 0 THEN Finite(a, b)
  ELSE IF a = 0 THEN NaN
  ELSE IF a > 0 THEN Infinity
  ELSE NegInfinity

\* x * k for a positive integer k
JsTimes(x, k) ==
  IF x.kind = "finite" THEN Finite(x.num * k, x.den) ELSE x

(***************************************************************************)
(* lodash helpers.                                                         *)
(***************************************************************************)
RECURSIVE BaseSum(_)
BaseSum(values) ==
  IF values = <<>> THEN 0 ELSE Head(values) + BaseSum(Tail(values))

\* _.sumBy(rows, iteratee): 0 for an empty array
SumBy(rows, field) == BaseSum([i \in DOMAIN rows |-> rows[i][field]])

Range(s) == {s[i] : i \in DOMAIN s}

\* the distinct keys of a key sequence, in the order in which each is first
\* assigned to the result object
RECURSIVE InsertionOrder(_)
InsertionOrder(keys) ==
  IF keys = <<>> THEN <<>>
  ELSE LET before == InsertionOrder(SubSeq(keys, 1, Len(keys) - 1))
           k == keys[Len(keys)]
       IN  IF k \in Range(before) THEN before ELSE Append(before, k)

RECURSIVE Ascending(_)
Ascending(S) ==
  IF S = {} THEN <<>>
  ELSE LET m == CHOOSE x \in S : \A y \in S : x <= y
       IN  <<m>> \o Ascending(S \ {m})

(***************************************************************************)
(* Property keys.  _.groupBy collects its groups in a plain object, whose  *)
(* own keys are enumerated with the array-index keys first, in ascending   *)
(* numeric order, and the other string keys after them in the order in     *)
(* which they were created.  The upper limit of an array index (2^32 - 2)  *)
(* is beyond every value getFullYear() returns.                            *)
(***************************************************************************)
\* the integers whose decimal string occurs as a key of the model
IntegerKeys == Years \cup {7, 10}

\* the decimal strings of the integer keys, each with the integer it denotes
CanonicalNumericStrings == [n \in IntegerKeys |-> ToString(n)]

\* the array index a key denotes, or -1 for any other string
KeyIndex(key) ==
  IF \E n \in IntegerKeys : CanonicalNumericStrings[n] = key
  THEN CHOOSE n \in IntegerKeys : CanonicalNumericStrings[n] = key
  ELSE -1

\* String(getFullYear())
YearString(year) == CanonicalNumericStrings[year]

\* parseInt(key) of a group key that String(getFullYear()) produced
ParseInt(key) == CHOOSE n \in IntegerKeys : CanonicalNumericStrings[n] = key

OwnKeys(keys) ==
  LET ks == Range(keys)
      indices == Ascending({KeyIndex(k) : k \in ks} \ {-1})
      indexKeys == [i \in DOMAIN indices |-> CHOOSE k \in ks : KeyIndex(k) = indices[i]]
  IN  indexKeys \o SelectSeq(keys, LAMBDA k : KeyIndex(k) < 0)

\* the group key of every row under row => new Date(...).getFullYear()
YearKeys(rows) == [i \in DOMAIN rows |-> YearString(rows[i].orderYear)]

\* the group key of every row under 'Sub-Category'
SubCategoryKeys(rows) == [i \in DOMAIN rows |-> rows[i].subCategory]

\* the keys of the object _.groupBy builds from rows with these keys, in
\* enumeration order
GroupKeys(keys) == OwnKeys(InsertionOrder(keys))

\* the group that object holds under key k: the rows of that key, in row order
Group(rows, keys, k) ==
  LET members == Ascending({i \in DOMAIN rows : keys[i] = k})
  IN  [j \in DOMAIN members |-> rows[members[j]]]

(***************************************************************************)
(* The four aggregations of loadData.                                      *)
(***************************************************************************)
\* a faulty variant: the sales of a year summed from the Profit column
YearlyStatsSalesFromProfit(rows) ==
  LET keys == GroupKeys(YearKeys(rows))
  IN  [i \in DOMAIN keys |->
         LET yearData == Group(rows, YearKeys(rows), keys[i])
         IN  [year |-> ParseInt(keys[i]),
              sales |-> SumBy(yearData, "profit"),
              profit |-> SumBy(yearData, "profit"),
              orders |-> Len(yearData),
              avgOrderValue |-> JsDiv(SumBy(yearData, "sales"), Len(yearData)),
              salesGrowth |-> Zero,
              profitGrowth |-> Zero]]

YearlyStats(rows) ==
  LET keys == GroupKeys(YearKeys(rows))
  IN  [i \in DOMAIN keys |->
         LET yearData == Group(rows, YearKeys(rows), keys[i])
         IN  [year |-> ParseInt(keys[i]),
              sales |-> SumBy(yearData, "sales"),
              profit |-> SumBy(yearData, "profit"),
              orders |-> Len(yearData),
              avgOrderValue |-> JsDiv(SumBy(yearData, "sales"), Len(yearData)),
              salesGrowth |-> Zero,
              profitGrowth |-> Zero]]

GrowthPct(current, previous) == JsTimes(JsDiv(current - previous, previous), 100)

\* a faulty variant: growth taken from the first year instead of the preceding one
WithGrowthFromFirst(stats) ==
  [i \in DOMAIN stats |->
     IF i > 1
     THEN [stats[i] EXCEPT
             !.salesGrowth = GrowthPct(stats[i].sales, stats[1].sales),
             !.profitGrowth = GrowthPct(stats[i].profit, stats[1].profit)]
     ELSE stats[i]]

WithGrowth(stats) ==
  [i \in DOMAIN stats |->
     IF i > 1
     THEN [stats[i] EXCEPT
             !.salesGrowth = GrowthPct(stats[i].sales, stats[i - 1].sales),
             !.profitGrowth = GrowthPct(stats[i].profit, stats[i - 1].profit)]
     ELSE stats[i]]

\* a faulty variant: the average taken over the years instead of the orders
TotalMetricsPerYear(rows) ==
  [totalSales |-> SumBy(rows, "sales"),
   totalProfit |-> SumBy(rows, "profit"),
   totalOrders |-> Len(rows),
   avgOrderValue |-> JsDiv(SumBy(rows, "sales"), Len(GroupKeys(YearKeys(rows))))]

TotalMetrics(rows) ==
  [totalSales |-> SumBy(rows, "sales"),
   totalProfit |-> SumBy(rows, "profit"),
   totalOrders |-> Len(rows),
   avgOrderValue |-> JsDiv(SumBy(rows, "sales"), Len(rows))]

\* a sort that puts an element before the elements equal to it
RECURSIVE OrderByDescUnstable(_)
OrderByDescUnstable(stats) ==
  IF stats = <<>> THEN <<>>
  ELSE LET n == Len(stats)
           sorted == OrderByDescUnstable(SubSeq(stats, 1, n - 1))
           x == stats[n]
           ahead == Cardinality({j \in DOMAIN sorted : sorted[j].value > x.value})
       IN  SubSeq(sorted, 1, ahead) \o <<x>> \o SubSeq(sorted, ahead + 1, n - 1)

\* _.orderBy(stats, ['value'], ['desc']): a stable sort
RECURSIVE OrderByDesc(_)
OrderByDesc(stats) ==
  IF stats = <<>> THEN <<>>
  ELSE LET n == Len(stats)
           sorted == OrderByDesc(SubSeq(stats, 1, n - 1))
           x == stats[n]
           ahead == Cardinality({j \in DOMAIN sorted : sorted[j].value >= x.value})
       IN  SubSeq(sorted, 1, ahead) \o <<x>> \o SubSeq(sorted, ahead + 1, n - 1)

SubCategoryGroups(rows) ==
  LET keys == GroupKeys(SubCategoryKeys(rows))
  IN  [i \in DOMAIN keys |->
         LET subCatData == Group(rows, SubCategoryKeys(rows), keys[i])
         IN  [name |-> keys[i],
              value |-> SumBy(subCatData, "sales"),
              profit |-> SumBy(subCatData, "profit"),
              orders |-> Len(subCatData)]]

\* a faulty variant: the summaries ranked by the sort that is not stable
SubCategoryStatsUnstable(rows) == OrderByDescUnstable(SubCategoryGroups(rows))

SubCategoryStats(rows) == OrderByDesc(SubCategoryGroups(rows))

\* { year: parseInt(year), ...sums }: a spread property replaces an earlier
\* property of the same name
TrendRow(year, sums) ==
  [k \in {"year"} \cup DOMAIN sums |-> IF k \in DOMAIN sums THEN sums[k] ELSE year]

SubCategoryTrends(rows) ==
  LET keys == GroupKeys(YearKeys(rows))
  IN  [i \in DOMAIN keys |->
         LET yearData == Group(rows, YearKeys(rows), keys[i])
             subCategories == Range(GroupKeys(SubCategoryKeys(yearData)))
         IN  TrendRow(ParseInt(keys[i]),
                      [k \in subCategories |->
                         SumBy(Group(yearData, SubCategoryKeys(yearData), k), "sales")])]

(***************************************************************************)
(* The component state and the steps of the loadData effect.               *)
(***************************************************************************)
Null == "null"

LoadFailed == "Failed to load dashboard data. Please try again later."

Setters == {"setYearlyData", "setTotalMetrics", "setSubCategoryData",
            "setSubCategoryTrends"}

Init ==
  /\ pc = "fetch"
  /\ data = <<>>
  /\ yearlyData = <<>>
  /\ totalMetrics = [totalSales |-> 0, totalProfit |-> 0, totalOrders |-> 0,
                     avgOrderValue |-> Zero]
  /\ subCategoryData = <<>>
  /\ subCategoryTrends = <<>>
  /\ error = Null
  /\ setCalls = {}

\* the catch block
Catch ==
  /\ error' = LoadFailed
  /\ pc' = "done"
  /\ UNCHANGED <<data, yearlyData, totalMetrics, subCategoryData,
                 subCategoryTrends, setCalls>>

\* fetch() rejects
FetchRejects ==
  /\ pc = "fetch"
  /\ Catch

\* fetch() resolves with a response that is not ok
FetchNotOk ==
  /\ pc = "fetch"
  /\ Catch

\* fetch() resolves with an ok response; loadData awaits response.text()
FetchOk ==
  /\ pc = "fetch"
  /\ pc' = "text"
  /\ UNCHANGED <<data, yearlyData, totalMetrics, subCategoryData,
                 subCategoryTrends, error, setCalls>>

\* response.text() rejects
TextRejects ==
  /\ pc = "text"
  /\ Catch

\* does loadData throw on this parse result
ParseRejected(parsed) == parsed.errors > 0

\* a faulty variant: the parse errors are looked at after the yearly data is set
SettersCalledBeforeCheck(parsed) ==
  IF ParseRejected(parsed) THEN {"setYearlyData"} ELSE Setters

\* the state setters loadData has called when it leaves the try block
SettersCalled(parsed) == IF ParseRejected(parsed) THEN {} ELSE Setters

\* response.text() resolves: parse, aggregate and set the state in one
\* synchronous run.  parsed is the result of Papa.parse: the number of
\* parse errors and the rows.
Process(parsed) ==
  /\ pc' = "done"
  /\ setCalls' = SettersCalled(parsed)
  /\ IF ParseRejected(parsed)
     THEN /\ error' = LoadFailed
          /\ UNCHANGED data
     ELSE /\ error' = Null
          /\ data' = parsed.data
  /\ yearlyData' =
       IF "setYearlyData" \in setCalls'
       THEN WithGrowth(YearlyStats(parsed.data)) ELSE yearlyData
  /\ totalMetrics' =
       IF "setTotalMetrics" \in setCalls'
       THEN TotalMetrics(parsed.data) ELSE totalMetrics
  /\ subCategoryData' =
       IF "setSubCategoryData" \in setCalls'
       THEN SubCategoryStats(parsed.data) ELSE subCategoryData
  /\ subCategoryTrends' =
       IF "setSubCategoryTrends" \in setCalls'
       THEN SubCategoryTrends(parsed.data) ELSE subCategoryTrends

\* response.text() resolves with a text that parses without errors into rows
\* drawn from R
ParsesOver(R) ==
  /\ pc = "text"
  /\ \E n \in 0..MaxLen : \E rows \in [1..n -> R] :
       Process([errors |-> 0, data |-> rows])

TextParses == ParsesOver(Rows)

TextParsesLabels == ParsesOver(LabelRows)

\* response.text() resolves with a text in which Papa.parse finds errors (at
\* most one per row); the rows it still returns are never read
TextMalformed ==
  /\ pc = "text"
  /\ \E n \in 1..MaxLen : \E rows \in {<<>>} \cup {<<r>> : r \in Rows} :
       Process([errors |-> n, data |-> rows])

Next ==
  \/ FetchRejects
  \/ FetchNotOk
  \/ FetchOk
  \/ TextRejects
  \/ TextParses
  \/ TextMalformed

Spec == Init /\ [][Next]_vars

NextLabels ==
  \/ FetchRejects
  \/ FetchNotOk
  \/ FetchOk
  \/ TextRejects
  \/ TextParsesLabels
  \/ TextMalformed

SpecLabels == Init /\ [][NextLabels]_vars

Ready == pc = "done" /\ error = Null

(***************************************************************************)
(* Reference quantities, taken directly from the parsed rows.              *)
(***************************************************************************)
RECURSIVE SumOver(_, _)
SumOver(I, f) ==
  IF I = {} THEN 0
  ELSE LET i == CHOOSE j \in I : TRUE IN f[i] + SumOver(I \ {i}, f)

SalesAt == [i \in DOMAIN data |-> data[i].sales]

ProfitAt == [i \in DOMAIN data |-> data[i].profit]

YearsPresent == {data[i].orderYear : i \in DOMAIN data}

RowsOf(y) == {i \in DOMAIN data : data[i].orderYear = y}

RowsOfLabel(I, l) == {i \in I : data[i].subCategory = l}

\* the position of year y among the years present, counted from the earliest
Rank(y) == Cardinality({z \in YearsPresent : z <= y})

\* g is the JavaScript value of (current - previous) / previous * 100
IsGrowth(g, current, previous) ==
  IF previous # 0
  THEN /\ g.kind = "finite"
       /\ g.den > 0
       /\ g.num * previous = 100 * (current - previous) * g.den
  ELSE IF current > 0 THEN g.kind = "Infinity"
  ELSE IF current < 0 THEN g.kind = "-Infinity"
  ELSE g.kind = "NaN"

IsZero(g) == g.kind = "finite" /\ g.num = 0

(***************************************************************************)
(* C1.  For every non-empty record set the yearly summary of the earliest  *)
(* year has salesGrowth = 0 and profitGrowth = 0, and the summary of every *)
(* later year Y has salesGrowth = (Y.sales - P.sales) / P.sales * 100 and  *)
(* profitGrowth = (Y.profit - P.profit) / P.profit * 100, where P is the   *)
(* summary of the latest year present before Y.  The quotient is the       *)
(* JavaScript one, so a zero P.sales gives Infinity, -Infinity or NaN.     *)
(***************************************************************************)
C1_GrowthFromPrecedingYear ==
  (Ready /\ data # <<>>) =>
    /\ \A y \in YearsPresent : \E i \in DOMAIN yearlyData : yearlyData[i].year = y
    /\ \A i \in DOMAIN yearlyData :
         LET Y == yearlyData[i]
             earlier == {j \in DOMAIN yearlyData : yearlyData[j].year < Y.year}
         IN  IF earlier = {}
             THEN IsZero(Y.salesGrowth) /\ IsZero(Y.profitGrowth)
             ELSE LET p == CHOOSE j \in earlier :
                             \A k \in earlier : yearlyData[k].year <= yearlyData[j].year
                      P == yearlyData[p]
                  IN  /\ IsGrowth(Y.salesGrowth, Y.sales, P.sales)
                      /\ IsGrowth(Y.profitGrowth, Y.profit, P.profit)

\* three years arrive out of order, and the growth of the last year differs
\* according to whether it is taken from the first or from the second year
C1_Witness ==
  /\ Ready
  /\ Len(data) = 3
  /\ data[1].orderYear > data[2].orderYear
  /\ Len(yearlyData) = 3
  /\ yearlyData[1].sales = 0
  /\ yearlyData[2].sales = 1
  /\ yearlyData[3].sales = 1
  /\ IsZero(yearlyData[3].salesGrowth)
  /\ yearlyData[3].profitGrowth.kind = "finite"
  /\ yearlyData[3].profitGrowth.num = -200

(***************************************************************************)
(* C2.  For every input, in any row order, the yearly summaries and the    *)
(* trend rows are each in strictly ascending order of year.                *)
(***************************************************************************)
C2_SortedByYear ==
  Ready =>
    /\ \A i, j \in DOMAIN yearlyData :
         i < j => yearlyData[i].year < yearlyData[j].year
    /\ \A i, j \in DOMAIN subCategoryTrends :
         i < j => subCategoryTrends[i].year < subCategoryTrends[j].year

(***************************************************************************)
(* C3.  For any input the sub-category summaries are sorted non-increasing *)
(* by total sales, and two sub-categories with equal total sales appear in *)
(* the order in which they were first seen in the input.                   *)
(***************************************************************************)
FirstSeen(l) == CHOOSE i \in DOMAIN data :
                  /\ data[i].subCategory = l
                  /\ \A j \in DOMAIN data : data[j].subCategory = l => i <= j

LabelsPresent == {data[i].subCategory : i \in DOMAIN data}

SummariesCoverLabels ==
  /\ Len(subCategoryData) = Cardinality(LabelsPresent)
  /\ \A l \in LabelsPresent : \E i \in DOMAIN subCategoryData :
       /\ subCategoryData[i].name = l
       /\ subCategoryData[i].value = SumOver(RowsOfLabel(DOMAIN data, l), SalesAt)

GroupedBefore(a, b) ==
  LET ia == KeyIndex(a)
      ib == KeyIndex(b)
  IN  IF ia >= 0 /\ ib >= 0 THEN ia < ib
      ELSE IF ia >= 0 THEN TRUE
      ELSE IF ib >= 0 THEN FALSE
      ELSE FirstSeen(a) < FirstSeen(b)

C4_SparseTrendRows ==
  Ready =>
    /\ Len(subCategoryTrends) = Cardinality(YearsPresent)
    /\ \A y \in YearsPresent :
         LET row == subCategoryTrends[Rank(y)]
         IN  \A l \in LabelsPresent :
               /\ l \in DOMAIN row <=> RowsOfLabel(RowsOf(y), l) # {}
               /\ RowsOfLabel(RowsOf(y), l) # {} =>
                    row[l] = SumOver(RowsOfLabel(RowsOf(y), l), SalesAt)

(***************************************************************************)
(* C5.  For all non-empty record sets the sales of the yearly summaries    *)
(* add up to the sales of all records, every record belongs to the group   *)
(* of exactly one summary, and the order counts add up to the number of    *)
(* records.                                                                *)
(***************************************************************************)
YearlySalesAt == [i \in DOMAIN yearlyData |-> yearlyData[i].sales]

YearlyOrdersAt == [i \in DOMAIN yearlyData |-> yearlyData[i].orders]

C5_YearGroupsPartition ==
  (Ready /\ data # <<>>) =>
    /\ SumOver(DOMAIN yearlyData, YearlySalesAt) = SumOver(DOMAIN data, SalesAt)
    /\ SumOver(DOMAIN yearlyData, YearlyOrdersAt) = Len(data)
    /\ \A r \in DOMAIN data :
         Cardinality({i \in DOMAIN yearlyData : yearlyData[i].year = data[r].orderYear}) = 1
    /\ \A i \in DOMAIN yearlyData :
         /\ yearlyData[i].sales = SumOver(RowsOf(yearlyData[i].year), SalesAt)
         /\ yearlyData[i].orders = Cardinality(RowsOf(yearlyData[i].year))

\* two rows of one year, given before and after a row of an earlier year
C5_Witness ==
  /\ Ready
  /\ Len(data) = 3
  /\ data[1].orderYear = data[3].orderYear
  /\ data[2].orderYear < data[1].orderYear
  /\ data[1].sales = 1
  /\ data[2].sales = 1
  /\ data[3].sales = 1
  /\ Len(yearlyData) = 2
  /\ yearlyData[2].sales = 2
  /\ yearlyData[2].orders = 2

(***************************************************************************)
(* C6.  A run over zero records ends in the error state, and no run ends   *)
(* with an average order value that is not a finite number.                *)
(***************************************************************************)
C6_EmptyDatasetReported ==
  (pc = "done" /\ setCalls = Setters /\ data = <<>>) =>
    /\ error # Null
    /\ totalMetrics.avgOrderValue.kind = "finite"

(***************************************************************************)
(* C7.  When the total sales (or profit) of the preceding year is zero,    *)
(* the salesGrowth (or profitGrowth) of the following year is 0 or a null  *)
(* sentinel, never NaN or an infinity.                                     *)
(***************************************************************************)
C7_ZeroBaseGrowthDefined ==
  Ready =>
    \A i \in DOMAIN yearlyData :
      i > 1 =>
        /\ yearlyData[i - 1].sales = 0 => yearlyData[i].salesGrowth.kind = "finite"
        /\ yearlyData[i - 1].profit = 0 => yearlyData[i].profitGrowth.kind = "finite"

(***************************************************************************)
(* C8.  A run is all-or-nothing: whenever the error indicator is set, the  *)
(* run has called none of the four setters and the four outputs hold their *)
(* initial values; a run that ends without an error has called all four    *)
(* setters, and the outputs are the aggregates of the parsed rows.         *)
(***************************************************************************)
C8_AllOrNothing ==
  /\ error # Null =>
       /\ pc = "done"
       /\ setCalls = {}
       /\ yearlyData = <<>>
       /\ totalMetrics.totalOrders = 0
       /\ subCategoryData = <<>>
       /\ subCategoryTrends = <<>>
  /\ (pc = "done" /\ error = Null) =>
       /\ setCalls = Setters
       /\ Len(yearlyData) = Cardinality(YearsPresent)
       /\ totalMetrics.totalOrders = Len(data)
       /\ Len(subCategoryData) = Cardinality(LabelsPresent)
       /\ Len(subCategoryTrends) = Cardinality(YearsPresent)

\* a run that failed on a malformed text
C8_WitnessFailed ==
  /\ pc = "done"
  /\ error = LoadFailed
  /\ setCalls = {}

(***************************************************************************)
(* C9.  For all non-empty record sets the aggregate has totalOrders equal  *)
(* to the number of records, totalSales and totalProfit equal to the sums  *)
(* over all records, and avgOrderValue = totalSales / totalOrders.         *)
(***************************************************************************)
C9_TotalMetrics ==
  (Ready /\ data # <<>>) =>
    /\ totalMetrics.totalOrders = Len(data)
    /\ totalMetrics.totalSales = SumOver(DOMAIN data, SalesAt)
    /\ totalMetrics.totalProfit = SumOver(DOMAIN data, ProfitAt)
    /\ totalMetrics.avgOrderValue.kind = "finite"
    /\ totalMetrics.avgOrderValue.den > 0
    /\ totalMetrics.avgOrderValue.num * totalMetrics.totalOrders
         = totalMetrics.totalSales * totalMetrics.avgOrderValue.den

\* three records with sales 2 and profit -1 in total: the average is 2/3
C9_Witness ==
  /\ Ready
  /\ totalMetrics.totalOrders = 3
  /\ totalMetrics.totalSales = 2
  /\ totalMetrics.totalProfit = -1
  /\ totalMetrics.avgOrderValue.num = 2
  /\ totalMetrics.avgOrderValue.den = 3

(***************************************************************************)
(* C10.  For every input, the year field of each trend row is the year of  *)
(* the group the row was built from, and the sub-category values of the    *)
(* row add up to the sales of the yearly summary of that year.             *)
(***************************************************************************)
C10_TrendRowKeepsYear ==
  Ready =>
    /\ Len(subCategoryTrends) = Len(yearlyData)
    /\ \A i \in DOMAIN subCategoryTrends :
         LET row == subCategoryTrends[i]
         IN  /\ row.year = yearlyData[i].year
             /\ SumOver(DOMAIN row \ {"year"}, row) = yearlyData[i].sales

====
